---- MODULE Spec2Model ----
(***************************************************************************)
(* Model of the tsunami scene drivers (frontend/src/app/main.js and its    *)
(* React twin frontend/src/app/Viewer.jsx): the per-frame loop `animate`,   *)
(* the launch trigger, the wave-ball spawner, the building damage state     *)
(* machine and the deferred removal queue.                                  *)
(*                                                                         *)
(* The physics engine (cannon-es) is not part of the repository: the model  *)
(* keeps its body list (world.bodies) and lets it deliver `collide` events  *)
(* and move bodies nondeterministically inside world.step.                  *)
(***************************************************************************)
EXTENDS Integers, Sequences, FiniteSets, TLC

----------------------------------------------------------------------------
(* Program constants *)

MAX_OBJECTS == 200
MAX_SUBSTEPS == 3
WAVE_DAMAGE == 10
MAXWAVES == 32
WATER_SIZE == 500
SOLVER_ITERATIONS == 15
STEPS_PER_SECOND == 120

(* Bounds of the model *)

\* user balls ever launched (driver specification)
MaxLaunched == 1
\* user balls ever launched (population-cap specification)
MaxLaunchedCap == 310
\* user balls that ever leave the world bounds
MaxOob == 1
\* waves, and so wave-balls, ever created (driver specification)
MaxWaves == 1
\* waves, and so wave-balls, ever created (wave-ball specification)
MaxWaveBalls == 3
\* length up to which a contact episode is counted
MaxRun == 3
\* balls whose handler calls damageBuilding (damage specification)
MaxCallers == 2
\* waves ever created (Water specification)
MaxWaterWaves == 2
\* waves ever created (full-Water specification): more than MAXWAVES
MaxWaterFull == 33
\* frames of the stepping specification
MaxFrames == 3
\* waves ever created (retirement specification)
MaxLiveWaves == 1

----------------------------------------------------------------------------
(* JavaScript numbers: an integer or NaN.  Arithmetic and comparisons       *)
(* follow IEEE/ECMAScript: NaN is absorbing, every comparison with NaN is   *)
(* false, NaN != x is true for every x.                                     *)

NaN == [t |-> "nan", v |-> 0]
Undefined == [t |-> "undefined", v |-> 0]
JsNum(n) == [t |-> "num", v |-> n]
IsNum(a) == a.t = "num"

\* ToNumber: undefined converts to NaN
ToNumber(a) == IF IsNum(a) THEN a ELSE NaN
JsSub(a, b) == IF IsNum(ToNumber(a)) /\ IsNum(ToNumber(b)) THEN JsNum(a.v - b.v) ELSE NaN
JsAdd(a, b) == IF IsNum(ToNumber(a)) /\ IsNum(ToNumber(b)) THEN JsNum(a.v + b.v) ELSE NaN
JsMul(a, b) == IF IsNum(ToNumber(a)) /\ IsNum(ToNumber(b)) THEN JsNum(a.v * b.v) ELSE NaN
JsLe(a, b) == IsNum(a) /\ IsNum(b) /\ a.v <= b.v
JsGt(a, b) == IsNum(a) /\ IsNum(b) /\ a.v > b.v
\* Math.min / Math.max return NaN as soon as one argument is NaN
JsMin(a, b) == IF IsNum(a) /\ IsNum(b) THEN (IF a.v <= b.v THEN a ELSE b) ELSE NaN
JsMax(a, b) == IF IsNum(a) /\ IsNum(b) THEN (IF a.v >= b.v THEN a ELSE b) ELSE NaN

\* integer square root (floor), by search
ISqrt(n) == CHOOSE r \in 0..(n + 1) : r * r <= n /\ (r + 1) * (r + 1) > n
JsSqrt(a) == IF IsNum(a) /\ a.v >= 0 THEN JsNum(ISqrt(a.v)) ELSE NaN

\* property read obj[key]: a missing property reads as undefined
JsGet(obj, key) == IF key \in DOMAIN obj THEN JsNum(obj[key]) ELSE Undefined

----------------------------------------------------------------------------
(* State *)

VARIABLES
  driver,            \* "main" (main.js) or "viewer" (Viewer.jsx)
  pc,                \* position inside animate(); "idle" between frames,
                     \* "unmounted" once the Viewer cleanup has run
  substeps,          \* sub-steps world.step has run in the current frame
  loadState,         \* GLTF load: "pending", "loaded" or "failed"
  body,              \* building id -> the fields of its CANNON.Body
  buildings,         \* the buildings list
  buildingsToRemove, \* the deferred removal queue
  objects,           \* the tracked user balls, in launch order
  launched,          \* user balls created so far (ids 1..launched)
  oob,               \* user balls whose position is out of the world bounds
  oobCount,          \* user balls that ever left the bounds
  waves,             \* wave id -> abstract position of the Wave
  waterWaves,        \* Water.waves: the active waves
  waveballs,         \* the tracked wave-balls (one triple per wave id)
  index,             \* wave-ball id -> the index its collide closure captured
  lastTouched,       \* the lastTouched array
  world,             \* world.bodies
  touched,           \* (ball, building) collide events of the current sub-step
  run,               \* the contact episodes under way (observer)
  water,             \* the Water object with its Waves in numbers (Water specifications)
  twin,              \* two Waves constructed together and updated in step
  stepper            \* the frame clock and the stepping state of the World (stepping specification)

vars == << driver, pc, substeps, loadState, body, buildings, buildingsToRemove,
           objects, launched, oob, oobCount, waves, waterWaves, waveballs,
           index, lastTouched, world, touched, run, water, twin, stepper >>

\* bodies and meshes, as the values world.removeBody and the lists hold
Ground == << "ground", 0 >>
Bld(i) == << "building", i >>
Obj(i) == << "sphere", i >>
Wb(i) == << "waveball", i >>
WbMesh(i) == << "mesh", i >>


Init ==
  /\ driver \in {"main", "viewer"}
  /\ pc = "idle"
  /\ substeps = 0
  /\ loadState = "pending"
  /\ body = << >>
  /\ buildings = << >>
  /\ buildingsToRemove = << >>
  /\ objects = << >>
  /\ launched = 0
  /\ oob = {}
  /\ oobCount = 0
  /\ waves = << >>
  /\ waterWaves = << >>
  /\ waveballs = << >>
  /\ index = << >>
  /\ lastTouched = << >>
  /\ world = {Ground}
  /\ touched = {}
  /\ run = {}
  /\ water = [waves |-> << >>, newWaves |-> << >>, created |-> 0]
  /\ twin = << >>
  /\ stepper = [ iterations |-> SOLVER_ITERATIONS, accumulator |-> 0, raw |-> 0,
                 delta |-> 0, substeps |-> 0, stepped |-> 0, frames |-> 0 ]

----------------------------------------------------------------------------
(* Sequence helpers (Array.prototype) *)

Range(s) == {s[i] : i \in DOMAIN s}
\* Array.splice(i, 1) with a 1-based position
RemoveAt(s, i) == SubSeq(s, 1, i - 1) \o SubSeq(s, i + 1, Len(s))
\* Array.filter
Filter(s, keep) == SelectSeq(s, LAMBDA x : x \in keep)
\* Array.indexOf, 0 when absent (the code's -1)
IndexOf(s, x) ==
  IF x \in Range(s)
  THEN CHOOSE i \in DOMAIN s : s[i] = x /\ \A j \in 1..(i - 1) : s[j] # x
  ELSE 0
\* world.removeBody: bodies.indexOf(b), splice when found, nothing otherwise
RemoveBody(w, b) == w \ {b}

----------------------------------------------------------------------------
(* GLTF load callback: one kinematic body per mesh that is large enough.    *)
(* A mesh is its world-space bounding box size; masses are kept in          *)
(* hundredths (MassScale), so that mass = volume * 0.01 is exact.           *)

MassScale == 100
MIN_DIM == 100
MIN_MASS == 5
MAX_MASS == 20000
MIN_HEALTH == 200
MAX_HEALTH == 3000
HEALTH_PER_MASS == 10

Max2(a, b) == IF a >= b THEN a ELSE b
Min2(a, b) == IF a <= b THEN a ELSE b
Max3(a, b, c) == Max2(a, Max2(b, c))

Mesh(x, y, z) == [x |-> x, y |-> y, z |-> z]
TinyMesh == Mesh(50, 50, 50)
LightMesh == Mesh(100, 1, 1)
SmallMesh == Mesh(100, 10, 2)
OddMesh == Mesh(101, 3, 7)
MediumMesh == Mesh(100, 10, 10)
LargeMesh == Mesh(100, 100, 50)
HugeMesh == Mesh(1000, 1000, 10)

\* storedMass without the clamp: the raw mass, in hundredths
StoredMass_Unclamped(m) == m.x * m.y * m.z

\* storedMass = Math.max(5, Math.min(mass, 20000)), in hundredths
StoredMass(m) == Max2(MIN_MASS * MassScale, Min2(m.x * m.y * m.z, MAX_MASS * MassScale))
\* maxHealth = Math.max(200, Math.min(3000, Math.floor(storedMass * 10)))
MaxHealthOf(storedMass) ==
  Max2(MIN_HEALTH, Min2(MAX_HEALTH, (storedMass * HEALTH_PER_MASS) \div MassScale))

\* the body of one mesh; damping is kept in hundredths (the engine's default
\* 0.01 -> 1), kicks counts the calls of body.velocity.set, impulsed tells
\* whether body.applyImpulse was ever called
NewBuilding(m) ==
  [ storedMass |-> StoredMass(m),
    maxHealth |-> MaxHealthOf(StoredMass(m)),
    health |-> JsNum(MaxHealthOf(StoredMass(m))),
    isCrushable |-> TRUE,
    isActivated |-> FALSE,
    type |-> "KINEMATIC",
    mass |-> 0,
    kicks |-> 0,
    impulsed |-> FALSE,
    linearDamping |-> 1,
    angularDamping |-> 1,
    wireColor |-> "green" ]

\* city.traverse: meshes below the size threshold get no body
RECURSIVE Traverse(_)
Traverse(scene) ==
  IF scene = << >> THEN << >>
  ELSE (IF Max3(Head(scene).x, Head(scene).y, Head(scene).z) < MIN_DIM
        THEN << >> ELSE << NewBuilding(Head(scene)) >>) \o Traverse(Tail(scene))

LoadCallback(scene) ==
  /\ pc \in {"idle", "unmounted"}
  /\ loadState = "pending"
  /\ loadState' = "loaded"
  /\ body' = Traverse(scene)
  /\ buildings' = [i \in 1..Len(Traverse(scene)) |-> i]
  /\ world' = world \cup {Bld(i) : i \in 1..Len(Traverse(scene))}
  /\ UNCHANGED << stepper, water, twin, driver, pc, substeps, buildingsToRemove, objects, launched, oob,
                  oobCount, waves, waterWaves, waveballs, index, lastTouched,
                  touched, run >>

\* the load fails and the failure stops the frame loop
LoadFailure_Halt ==
  /\ pc = "idle"
  /\ loadState = "pending"
  /\ loadState' = "failed"
  /\ pc' = "halted"
  /\ UNCHANGED << stepper, water, twin, driver, substeps, body, buildings, buildingsToRemove,
                  objects, launched, oob, oobCount, waves, waterWaves, waveballs, index,
                  lastTouched, world, touched, run >>

\* the load fails: the callback never runs
LoadFailure ==
  /\ pc = "idle"
  /\ loadState = "pending"
  /\ loadState' = "failed"
  /\ UNCHANGED << stepper, water, twin, driver, pc, substeps, body, buildings, buildingsToRemove, objects,
                  launched, oob, oobCount, waves, waterWaves, waveballs, index,
                  lastTouched, world, touched, run >>

----------------------------------------------------------------------------
(* Building damage state machine *)

\* activateBuilding without its isActivated guard
ActivateBuilding_NoGuard(b) ==
  [b EXCEPT !.isActivated = TRUE,
            !.type = "DYNAMIC",
            !.mass = b.storedMass,
            !.kicks = @ + 1,
            !.linearDamping = 80,
            !.angularDamping = 80]

\* activateBuilding(body)
ActivateBuilding(b) ==
  IF b.isActivated THEN b
  ELSE [b EXCEPT !.isActivated = TRUE,
                 !.type = "DYNAMIC",
                 !.mass = b.storedMass,
                 !.kicks = @ + 1,
                 !.linearDamping = 80,
                 !.angularDamping = 80]

\* the wireframe colour for a health value: ratio = Math.max(health / maxHealth, 0)
WireColor(health, maxHealth) ==
  IF IsNum(health) /\ health.v * 10 > 7 * maxHealth THEN "green"
  ELSE IF IsNum(health) /\ health.v * 10 > 3 * maxHealth THEN "yellow"
  ELSE "red"

\* damageBuilding returning on a destroying hit before it sets the colour
DamageBuilding_ColourAfterTest(b, damage, impact) ==
  LET h == JsSub(b.health, damage)
      hit == [b EXCEPT !.health = h]
  IN IF JsLe(h, JsNum(0))
     THEN [body |-> hit, enqueued |-> TRUE]
     ELSE [body |-> [ActivateBuilding([hit EXCEPT !.wireColor = WireColor(h, b.maxHealth)])
                       EXCEPT !.impulsed = @ \/ impact],
           enqueued |-> FALSE]

\* damageBuilding with the activation and the impulse moved before the
\* health <= 0 test
DamageBuilding_ActivateFirst(b, damage, impact) ==
  LET h == JsSub(b.health, damage)
      hit == [b EXCEPT !.health = h, !.wireColor = WireColor(h, b.maxHealth)]
      act == [ActivateBuilding(hit) EXCEPT !.impulsed = @ \/ impact]
  IN [body |-> act, enqueued |-> JsLe(h, JsNum(0))]

\* damageBuilding with "health < 0" for "health <= 0"
DamageBuilding_Strict(b, damage, impact) ==
  LET h == JsSub(b.health, damage)
      hit == [b EXCEPT !.health = h, !.wireColor = WireColor(h, b.maxHealth)]
  IN IF IsNum(h) /\ h.v < 0
     THEN [body |-> hit, enqueued |-> TRUE]
     ELSE [body |-> [ActivateBuilding(hit) EXCEPT !.impulsed = @ \/ impact],
           enqueued |-> FALSE]

\* damageBuilding(body, damage, impactPoint, impactVelocity) on the fields of
\* one body: the new fields and whether the body was pushed on
\* buildingsToRemove.  impact: both impact arguments are truthy.
DamageBuilding(b, damage, impact) ==
  LET h == JsSub(b.health, damage)
      hit == [b EXCEPT !.health = h, !.wireColor = WireColor(h, b.maxHealth)]
  IN IF JsLe(h, JsNum(0))
     THEN [body |-> hit, enqueued |-> TRUE]
     ELSE [body |-> [ActivateBuilding(hit) EXCEPT !.impulsed = @ \/ impact],
           enqueued |-> FALSE]

\* processBuildingRemoval with "if" for "while": pops one queued body
ProcessRemoval_One(queue, w, blds) ==
  IF queue = << >> THEN [queue |-> queue, world |-> w, buildings |-> blds]
  ELSE LET b == queue[Len(queue)]
           i == IndexOf(blds, b)
       IN [ queue |-> SubSeq(queue, 1, Len(queue) - 1),
            world |-> RemoveBody(w, Bld(b)),
            buildings |-> IF i > 0 THEN RemoveAt(blds, i) ELSE blds ]

\* processBuildingRemoval: pop every queued body, remove it from the world and
\* from the buildings list
RECURSIVE ProcessRemoval(_, _, _)
ProcessRemoval(queue, w, blds) ==
  IF queue = << >> THEN [queue |-> queue, world |-> w, buildings |-> blds]
  ELSE LET b == queue[Len(queue)]
           i == IndexOf(blds, b)
       IN ProcessRemoval(SubSeq(queue, 1, Len(queue) - 1), RemoveBody(w, Bld(b)),
                         IF i > 0 THEN RemoveAt(blds, i) ELSE blds)

\* one damageBuilding call on the state
ApplyDamage(b, damage, impact) ==
  LET r == DamageBuilding(body[b], damage, impact)
  IN /\ body' = [body EXCEPT ![b] = r.body]
     /\ buildingsToRemove' =
          IF r.enqueued THEN Append(buildingsToRemove, b) ELSE buildingsToRemove

----------------------------------------------------------------------------
(* Launch trigger and the user-ball collide handler *)

\* vecLength(vector): reads vector[0], vector[1], vector[2]
VecLength(vector) ==
  JsSqrt(JsAdd(JsAdd(JsMul(JsGet(vector, "0"), JsGet(vector, "0")),
                     JsMul(JsGet(vector, "1"), JsGet(vector, "1"))),
               JsMul(JsGet(vector, "2"), JsGet(vector, "2"))))

\* x * 0.1
JsTenth(a) == IF IsNum(a) THEN JsNum(a.v \div 10) ELSE NaN

\* damage = Math.min(30, impactSpeed * 0.1), impactSpeed = vecLength(velocity)
UserDamage(velocity) == JsMin(JsNum(30), JsTenth(VecLength(velocity)))

\* a CANNON.Vec3 has the properties x, y, z
Vec3(x, y, z) == [x |-> x, y |-> y, z |-> z]
\* ball velocities at a contact: launch speed, a slow ball (speed 50), at rest
Velocities == { Vec3(600, 0, 0), Vec3(30, -40, 0), Vec3(0, 0, 0) }

LaunchBalls(count, limit) ==
  /\ pc = "idle"
  /\ launched + count <= limit
  /\ objects' = objects \o [i \in 1..count |-> launched + i]
  /\ world' = world \cup {Obj(launched + i) : i \in 1..count}
  /\ launched' = launched + count
  /\ UNCHANGED << stepper, water, twin, driver, pc, substeps, loadState, body, buildings, buildingsToRemove,
                  oob, oobCount, waves, waterWaves, waveballs, index, lastTouched,
                  touched, run >>

\* collide event of user ball o with building b, the ball moving at v
Collide_UserBall(o, b, v) ==
  /\ pc = "step"
  /\ substeps >= 1
  /\ Obj(o) \in world
  /\ Bld(b) \in world
  /\ IF body[b].isCrushable
     THEN ApplyDamage(b, UserDamage(v), TRUE)
     ELSE UNCHANGED << body, buildingsToRemove >>
  /\ UNCHANGED << stepper, water, twin, driver, pc, substeps, loadState, buildings, objects, launched, oob,
                  oobCount, waves, waterWaves, waveballs, index, lastTouched, world,
                  touched, run >>

----------------------------------------------------------------------------
(* Wave-balls *)

\* a value of the lastTouched array: NaN or a reference to a body
JsRef(b) == [t |-> "object", v |-> b]
\* a != b (main.js) and a !== b (Viewer.jsx) on NaN and object references
JsNotEqual(a, b) == a.t = "nan" \/ b.t = "nan" \/ a # b

\* makeBall(wave) creating and tracking two bodies for the one wave
MakeBall_Twice(w, st) ==
  [ index |-> Append(st.index, Len(st.waveballs)),
    world |-> st.world \cup {Wb(w)},
    waveballs |-> Append(Append(st.waveballs, w), w),
    lastTouched |-> Append(st.lastTouched, NaN) ]

\* makeBall(wave): the closure captures index = waveballs.length
MakeBall(w, st) ==
  [ index |-> Append(st.index, Len(st.waveballs)),
    world |-> st.world \cup {Wb(w)},
    waveballs |-> Append(st.waveballs, w),
    lastTouched |-> Append(st.lastTouched, NaN) ]

\* the guard of the wave-ball collide handler: lastTouched[index] != hitBody
WaveBallFresh(w, b) == JsNotEqual(lastTouched[index[w] + 1], JsRef(b))

\* the wave-ball collide handler, were damageBuilding to take a destroyed
\* building out of the World at once instead of queueing it
WaveBallContact_RemoveNow(w, b) ==
  /\ pc = "step"
  /\ substeps >= 1
  /\ Wb(w) \in world
  /\ Bld(b) \in world
  /\ << w, b >> \notin touched
  /\ touched' = touched \cup {<< w, b >>}
  /\ IF WaveBallFresh(w, b)
     THEN /\ lastTouched' = [lastTouched EXCEPT ![index[w] + 1] = JsRef(b)]
          /\ body' = [body EXCEPT
                        ![b] = DamageBuilding(body[b], JsNum(WAVE_DAMAGE), TRUE).body]
          /\ world' = IF DamageBuilding(body[b], JsNum(WAVE_DAMAGE), TRUE).enqueued
                      THEN RemoveBody(world, Bld(b)) ELSE world
     ELSE UNCHANGED << lastTouched, body, world >>
  /\ UNCHANGED << stepper, water, twin, driver, pc, substeps, loadState, buildings, buildingsToRemove, objects,
                  launched, oob, oobCount, waves, waterWaves, waveballs, index >>

\* collide event of wave-ball w with building b; the engine reports a pair of
\* bodies once per sub-step
WaveBallContact(w, b) ==
  /\ pc = "step"
  /\ substeps >= 1
  /\ Wb(w) \in world
  /\ Bld(b) \in world
  /\ << w, b >> \notin touched
  /\ touched' = touched \cup {<< w, b >>}
  /\ IF WaveBallFresh(w, b)
     THEN /\ lastTouched' = [lastTouched EXCEPT ![index[w] + 1] = JsRef(b)]
          /\ IF body[b].isCrushable
             THEN ApplyDamage(b, JsNum(WAVE_DAMAGE), TRUE)
             ELSE UNCHANGED << body, buildingsToRemove >>
     ELSE UNCHANGED << lastTouched, body, buildingsToRemove >>
  /\ UNCHANGED << stepper, water, twin, driver, pc, substeps, loadState, buildings, objects, launched, oob,
                  oobCount, waves, waterWaves, waveballs, index, world >>

Collide_WaveBall(w, b) == WaveBallContact(w, b) /\ UNCHANGED run

\* Observer of contact episodes.  An episode of wave-ball w on building b
\* lasts as long as every sub-step delivers a collide event of the pair; the
\* observer keeps its length in sub-steps (n, counted up to MaxRun) and the
\* number of damageBuilding calls the wave-ball made on b in it (hits, counted
\* up to 2).
RunOf(w, b) ==
  IF \E e \in run : e.w = w /\ e.b = b
  THEN CHOOSE e \in run : e.w = w /\ e.b = b
  ELSE [w |-> w, b |-> b, n |-> 0, hits |-> 0]

NextRun(r, damaged) ==
  [r EXCEPT !.n = Min2(@ + 1, MaxRun),
            !.hits = Min2(@ + (IF damaged THEN 1 ELSE 0), 2)]

Observed_Collide_WaveBall(w, b) ==
  /\ WaveBallContact(w, b)
  /\ run' = (run \ {RunOf(w, b)})
              \cup {NextRun(RunOf(w, b), WaveBallFresh(w, b) /\ body[b].isCrushable)}

----------------------------------------------------------------------------
(* Water.update, on the abstract position of each wave:                     *)
(*   "near"  within 100 units of the inflow edge, (x + size)^2 <= 10000     *)
(*   "mid"   travelling, inside every bound                                 *)
(*   "far"   |z| > 1000 (outside the wave-ball bounds), not yet done        *)
(*   "done"  done() holds: x > size + 1 or height < 0.05                    *)

WaveStates == {"near", "mid", "far", "done"}
\* Wave.update: x grows, so a wave never comes back
WaveSucc(st) ==
  CASE st = "near" -> {"near", "mid"}
    [] st = "mid" -> {"mid", "far", "done"}
    [] st = "far" -> {"far", "done"}
    [] OTHER -> {"done"}
\* Wave.done
WaveDone(st) == st = "done"

\* the spawn test of Water.update; rnd: Math.random() < 0.075
CanSpawn(rnd, limit) ==
  /\ rnd
  /\ Len(waterWaves) < MAXWAVES
  /\ (Len(waterWaves) = 0 \/ waves[waterWaves[Len(waterWaves)]] # "near")
  /\ Len(waves) < limit

\* animate, up to world.step: water.update(elapsedTime), then makeBall for each
\* new wave.  moved: the position of every wave after its update() call.
Animate_WaterUpdate(rnd, moved, limit) ==
  /\ pc = "idle"
  /\ LET spawn == CanSpawn(rnd, limit)
         id == Len(waves) + 1
         waves1 == IF spawn THEN Append(waves, "near") ELSE waves
         active1 == IF spawn THEN Append(waterWaves, id) ELSE waterWaves
         old == [index |-> index, world |-> world, waveballs |-> waveballs,
                 lastTouched |-> lastTouched]
         made == IF spawn THEN MakeBall(id, old) ELSE old
     IN /\ DOMAIN moved = DOMAIN waves1
        /\ \A i \in DOMAIN waves1 :
             IF i \in Range(active1)
             THEN moved[i] \in WaveSucc(waves1[i]) /\ (spawn /\ i = id => moved[i] = "near")
             ELSE moved[i] = waves1[i]
        /\ waves' = moved
        /\ waterWaves' = Filter(active1, {i \in DOMAIN moved : ~WaveDone(moved[i])})
        /\ index' = made.index
        /\ world' = made.world
        /\ waveballs' = made.waveballs
        /\ lastTouched' = made.lastTouched
  /\ pc' = "step"
  /\ substeps' = 0
  /\ UNCHANGED << stepper, water, twin, driver, loadState, body, buildings, buildingsToRemove, objects,
                  launched, oob, oobCount, touched, run >>

----------------------------------------------------------------------------
(* world.step(1 / 120, delta, 3): up to MAX_SUBSTEPS internal steps, each    *)
(* moving the bodies and then dispatching the collide events                *)

\* user balls that may have left the bounds: the oldest and the newest tracked
OobCandidates ==
  IF objects = << >> THEN {} ELSE {objects[1], objects[Len(objects)]} \ oob

InternalStepCore(out) ==
  /\ pc = "step"
  /\ substeps < MAX_SUBSTEPS
  /\ substeps' = substeps + 1
  /\ out \subseteq OobCandidates
  /\ Cardinality(out) <= 1
  /\ oobCount + Cardinality(out) <= MaxOob
  /\ oob' = oob \cup out
  /\ oobCount' = oobCount + Cardinality(out)
  /\ touched' = {}
  /\ UNCHANGED << stepper, water, twin, driver, pc, loadState, body, buildings, buildingsToRemove, objects,
                  launched, waves, waterWaves, waveballs, index, lastTouched, world >>

InternalStep(out) == InternalStepCore(out) /\ UNCHANGED run

\* an episode ends when a sub-step passes without a collide event of the pair
EndedRuns(r, seen) == {e \in r : << e.w, e.b >> \in seen}

Observed_InternalStep(out) ==
  /\ InternalStepCore(out)
  /\ run' = IF substeps >= 1 THEN EndedRuns(run, touched) ELSE run

WorldStepReturnCore ==
  /\ pc = "step"
  /\ pc' = "objects"
  /\ touched' = {}
  /\ UNCHANGED << stepper, water, twin, driver, substeps, loadState, body, buildings, buildingsToRemove,
                  objects, launched, oob, oobCount, waves, waterWaves, waveballs,
                  index, lastTouched, world >>

WorldStepReturn == WorldStepReturnCore /\ UNCHANGED run

Observed_WorldStepReturn ==
  /\ WorldStepReturnCore
  /\ run' = IF substeps >= 1 THEN EndedRuns(run, touched) ELSE run

----------------------------------------------------------------------------
(* animate, after world.step *)

\* "Update buildings": the bodies whose position and quaternion animate copies
\* into their meshes, right after world.step
CopiedBuildings == Range(buildings)

\* "Update spheres and remove out-of-bounds ones": backwards, splice in place
Animate_UpdateObjects ==
  /\ pc = "objects"
  /\ objects' = Filter(objects, Range(objects) \ oob)
  /\ world' = world \ {Obj(o) : o \in Range(objects) \cap oob}
  /\ oob' = oob \ Range(objects)
  /\ pc' = "waveballs"
  /\ UNCHANGED << stepper, water, twin, driver, substeps, loadState, body, buildings, buildingsToRemove,
                  launched, oobCount, waves, waterWaves, waveballs, index, lastTouched,
                  touched, run >>

\* a wave-ball is retired when its position is out of bounds or its wave is done
WaveBallDue(w) == waves[w] = "far" \/ WaveDone(waves[w])

\* what the wave-ball loop passes to world.removeBody: main.js passes the mesh
\* (`ball`), Viewer.jsx the body (`ballBody`)
RetiredBody(d, w) == IF d = "main" THEN WbMesh(w) ELSE Wb(w)

\* for (i = 0; i < waveballs.length; i++) { ... waveballs.splice(i, 1) ... }
RECURSIVE WaveballLoop(_, _, _, _)
WaveballLoop(d, wbs, i, w) ==
  IF i > Len(wbs) THEN [waveballs |-> wbs, world |-> w]
  ELSE IF WaveBallDue(wbs[i])
       THEN WaveballLoop(d, RemoveAt(wbs, i), i + 1, RemoveBody(w, RetiredBody(d, wbs[i])))
       ELSE WaveballLoop(d, wbs, i + 1, w)

\* the wave-balls whose body the loop visits, setting its position to
\* (wave.x, wave.height / 3 + water.position.y, wave.z): after a splice at i
\* the loop goes on at i + 1, past the entry that moved into slot i
RECURSIVE WaveballPositioned(_, _)
WaveballPositioned(wbs, i) ==
  IF i > Len(wbs) THEN {}
  ELSE {wbs[i]} \cup (IF WaveBallDue(wbs[i])
                      THEN WaveballPositioned(RemoveAt(wbs, i), i + 1)
                      ELSE WaveballPositioned(wbs, i + 1))

Animate_UpdateWaveballs ==
  /\ pc = "waveballs"
  /\ waveballs' = WaveballLoop(driver, waveballs, 1, world).waveballs
  /\ world' = WaveballLoop(driver, waveballs, 1, world).world
  /\ pc' = "cap"
  /\ UNCHANGED << stepper, water, twin, driver, substeps, loadState, body, buildings, buildingsToRemove,
                  objects, launched, oob, oobCount, waves, waterWaves, index,
                  lastTouched, touched, run >>

\* "Limit total objects": while (objects.length > MAX_OBJECTS) objects.shift()
\* the oldest tracked ball leaves the array, its body leaves the World
ShiftObject(st) ==
  [ objects |-> Tail(st.objects),
    world |-> RemoveBody(st.world, Obj(Head(st.objects))) ]

\* the newest tracked ball leaves instead (pop for shift)
PopObject(st) ==
  [ objects |-> SubSeq(st.objects, 1, Len(st.objects) - 1),
    world |-> RemoveBody(st.world, Obj(st.objects[Len(st.objects)])) ]

\* the cap sweep with "if" for "while": at most one ball is evicted a frame
LimitObjects_Once(st) ==
  IF Len(st.objects) > MAX_OBJECTS THEN ShiftObject(st) ELSE st

\* the cap sweep evicting the newest ball first
RECURSIVE LimitObjects_Pop(_)
LimitObjects_Pop(st) ==
  IF Len(st.objects) > MAX_OBJECTS THEN LimitObjects_Pop(PopObject(st)) ELSE st

RECURSIVE LimitObjects(_)
LimitObjects(st) ==
  IF Len(st.objects) > MAX_OBJECTS THEN LimitObjects(ShiftObject(st)) ELSE st

Animate_LimitObjects ==
  /\ pc = "cap"
  /\ objects' = LimitObjects([objects |-> objects, world |-> world]).objects
  /\ world' = LimitObjects([objects |-> objects, world |-> world]).world
  /\ pc' = "removal"
  /\ UNCHANGED << stepper, water, twin, driver, substeps, loadState, body, buildings, buildingsToRemove,
                  launched, oob, oobCount, waves, waterWaves, waveballs, index,
                  lastTouched, touched, run >>

\* processBuildingRemoval() called at the end of the frame and also from
\* inside world.step, between the collide events of a sub-step
Animate_ProcessBuildingRemoval_InStep ==
  /\ \/ pc = "step" /\ substeps >= 1 /\ UNCHANGED << pc, substeps >>
     \/ pc = "removal" /\ pc' = "idle" /\ substeps' = 0
  /\ world' = ProcessRemoval(buildingsToRemove, world, buildings).world
  /\ buildings' = ProcessRemoval(buildingsToRemove, world, buildings).buildings
  /\ buildingsToRemove' = ProcessRemoval(buildingsToRemove, world, buildings).queue
  /\ UNCHANGED << stepper, water, twin, driver, loadState, body, objects, launched, oob, oobCount, waves,
                  waterWaves, waveballs, index, lastTouched, touched, run >>

\* processBuildingRemoval(), then the frame ends
Animate_ProcessBuildingRemoval ==
  /\ pc = "removal"
  /\ world' = ProcessRemoval(buildingsToRemove, world, buildings).world
  /\ buildings' = ProcessRemoval(buildingsToRemove, world, buildings).buildings
  /\ buildingsToRemove' = ProcessRemoval(buildingsToRemove, world, buildings).queue
  /\ pc' = "idle"
  /\ substeps' = 0
  /\ UNCHANGED << stepper, water, twin, driver, loadState, body, objects, launched, oob, oobCount, waves,
                  waterWaves, waveballs, index, lastTouched, touched, run >>

\* the stages of animate that follow the return of world.step
AfterStep ==
  \/ Animate_UpdateObjects
  \/ Animate_UpdateWaveballs
  \/ Animate_LimitObjects
  \/ Animate_ProcessBuildingRemoval

\* the cleanup of the Viewer effect, run between two frames:
\* cancelAnimationFrame, delete window.launchBalls, renderer.dispose().  No
\* body is taken out of the World and no list is emptied.
Viewer_Cleanup ==
  /\ driver = "viewer"
  /\ pc = "idle"
  /\ pc' = "unmounted"
  /\ UNCHANGED << stepper, water, twin, driver, substeps, loadState, body, buildings,
                  buildingsToRemove, objects, launched, oob, oobCount, waves, waterWaves,
                  waveballs, index, lastTouched, world, touched, run >>

\* the positions the waves may have after one Water.update
Moves(limit) == UNION {[1..n -> WaveStates] : n \in 0..limit}

----------------------------------------------------------------------------
(* The driver: frames, launches of single balls, wave-balls, and a city of   *)
(* one building large enough to get a body                                  *)

Scenes == { << TinyMesh, SmallMesh >> }
LaunchCounts == {1}

Next ==
  \/ \E scene \in Scenes : LoadCallback(scene)
  \/ LoadFailure
  \/ \E count \in LaunchCounts : LaunchBalls(count, MaxLaunched)
  \/ \E rnd \in BOOLEAN : \E moved \in Moves(MaxWaves) :
       Animate_WaterUpdate(rnd, moved, MaxWaves)
  \/ \E out \in SUBSET OobCandidates : InternalStep(out)
  \/ WorldStepReturn
  \/ AfterStep
  \/ \E o \in 1..launched : \E b \in DOMAIN body : \E v \in Velocities :
       Collide_UserBall(o, b, v)
  \/ \E w \in DOMAIN index : \E b \in DOMAIN body : Collide_WaveBall(w, b)

Spec == Init /\ [][Next]_vars

\* the same with the unmounting of the Viewer
NextViewer ==
  \/ Next
  \/ Viewer_Cleanup

SpecViewer == Init /\ [][NextViewer]_vars

----------------------------------------------------------------------------
(* The population cap: batches of 60 (the launch button) and of 250 balls,   *)
(* no city and no wave                                                      *)

CapLaunchCounts == {60, 250}

NextCap ==
  \/ \E count \in CapLaunchCounts : LaunchBalls(count, MaxLaunchedCap)
  \/ Animate_WaterUpdate(FALSE, << >>, 0)
  \/ \E out \in SUBSET OobCandidates : InternalStep(out)
  \/ WorldStepReturn
  \/ AfterStep

SpecCap == Init /\ [][NextCap]_vars

----------------------------------------------------------------------------
(* Waves against a city of two buildings: the wave-ball collide handler,     *)
(* the damage state machine and the removal queue, no user ball             *)

WaveScenes == { << SmallMesh, OddMesh >> }

NextWaves ==
  \/ \E scene \in WaveScenes : LoadCallback(scene)
  \/ \E rnd \in BOOLEAN : \E moved \in Moves(MaxWaves) :
       Animate_WaterUpdate(rnd, moved, MaxWaves)
  \/ InternalStep({})
  \/ WorldStepReturn
  \/ AfterStep
  \/ \E w \in DOMAIN index : \E b \in DOMAIN body : Collide_WaveBall(w, b)

SpecWaves == Init /\ [][NextWaves]_vars

\* the same, with the observer of contact episodes
NextContact ==
  \/ \E scene \in WaveScenes : LoadCallback(scene)
  \/ \E rnd \in BOOLEAN : \E moved \in Moves(MaxWaves) :
       Animate_WaterUpdate(rnd, moved, MaxWaves)
  \/ Observed_InternalStep({})
  \/ Observed_WorldStepReturn
  \/ AfterStep
  \/ \E w \in DOMAIN index : \E b \in DOMAIN body : Observed_Collide_WaveBall(w, b)

SpecContact == Init /\ [][NextContact]_vars

----------------------------------------------------------------------------
(* The life cycle of the wave-balls alone: up to MaxWaveBalls waves, no city *)

NextBalls ==
  \/ \E rnd \in BOOLEAN : \E moved \in Moves(MaxWaveBalls) :
       Animate_WaterUpdate(rnd, moved, MaxWaveBalls)
  \/ InternalStep({})
  \/ WorldStepReturn
  \/ AfterStep

SpecBalls == Init /\ [][NextBalls]_vars

----------------------------------------------------------------------------
(* damageBuilding under arbitrary damage amounts: a collide handler of ball  *)
(* k calls damageBuilding(b, damage, ...) during a sub-step, with or without *)
(* impact data.  One building a city: maxHealth 1000 or 3000, and the        *)
(* meshes whose mass or health is clamped or floored.                        *)

DamageScenes ==
  { << MediumMesh >>, << LargeMesh >>, << TinyMesh, LightMesh >>, << OddMesh >>,
    << HugeMesh >> }
Damages == { JsNum(600), JsNum(1200), NaN }

DamageCall(k, b, damage, impact) ==
  /\ pc = "step"
  /\ substeps >= 1
  /\ Bld(b) \in world
  /\ << k, b >> \notin touched
  /\ touched' = touched \cup {<< k, b >>}
  /\ ApplyDamage(b, damage, impact)
  /\ UNCHANGED << stepper, water, twin, driver, pc, substeps, loadState, buildings, objects, launched, oob,
                  oobCount, waves, waterWaves, waveballs, index, lastTouched, world,
                  run >>

NextDamage ==
  \/ \E scene \in DamageScenes : LoadCallback(scene)
  \/ Animate_WaterUpdate(FALSE, << >>, 0)
  \/ InternalStep({})
  \/ WorldStepReturn
  \/ AfterStep
  \/ \E k \in 1..MaxCallers : \E b \in DOMAIN body : \E damage \in Damages :
       \E impact \in BOOLEAN : DamageCall(k, b, damage, impact)

SpecDamage == Init /\ [][NextDamage]_vars

\* the same under weak fairness: the browser keeps calling animate
SpecDamageLive == Init /\ [][NextDamage]_vars /\ WF_vars(NextDamage)

----------------------------------------------------------------------------
(* The Wave and Water classes in numbers.  Lengths, speeds and heights are   *)
(* kept in thousandths (fixed point); a product is divided back with \div.   *)
(* The draws of Math.random() in the Wave constructor come from small sets.  *)

Milli == 1000
Abs(n) == IF n < 0 THEN -n ELSE n

\* new Wave(size), d being the values drawn for z, maxxSpeed, maxzSpeed,
\* maxHeight and width
NewWave(size, d) ==
  [ size |-> size,
    x |-> -size,
    z |-> d.z,
    maxxSpeed |-> d.maxxSpeed,
    xspeed |-> d.maxxSpeed,
    maxzSpeed |-> d.maxzSpeed,
    zspeed |-> d.maxzSpeed,
    maxHeight |-> d.maxHeight,
    height |-> 1 * Milli,
    width |-> d.width,
    growing |-> TRUE,
    stoppedgrowing |-> -1 ]

\* Wave.done with "size - 1" for "size + 1"
WaveIsDone_Early(w) == w.x > w.size - 1 * Milli \/ w.height < 50

\* Wave.done with "size + 2" for "size + 1"
WaveIsDone_Late(w) == w.x > w.size + 2 * Milli \/ w.height < 50

\* Wave.done(): x > size + 1 || height < 0.05
WaveIsDone(w) == w.x > w.size + 1 * Milli \/ w.height < 50

\* the height after one update, and whether the wave is still growing
NextHeight(w) == IF w.growing THEN w.height + 500 ELSE (w.height * 9999) \div 10000
NextGrowing(w) == w.growing /\ ~(NextHeight(w) >= w.maxHeight)

\* p / q rounded to the nearest thousandth (q > 0)
Round(p, q) == (2 * p + q) \div (2 * q)

\* Wave.update() with the speeds falling to zero at size, not at size + 2:
\* the wave comes to rest short of size + 1
WaveUpdate_StopAtSize(w) ==
  [w EXCEPT !.x = w.x + w.xspeed,
            !.z = w.z + w.zspeed,
            !.height = NextHeight(w),
            !.growing = NextGrowing(w),
            !.xspeed = Round(w.maxxSpeed * (w.size - (w.x + w.xspeed)), w.size),
            !.zspeed = Round(w.maxzSpeed * (w.size - (w.z + w.zspeed)), w.size)]

\* Wave.update()
WaveUpdate(w) ==
  [w EXCEPT !.x = w.x + w.xspeed,
            !.z = w.z + w.zspeed,
            !.height = NextHeight(w),
            !.growing = NextGrowing(w),
            !.xspeed = Round(w.maxxSpeed * (w.size + 2 * Milli - (w.x + w.xspeed)), w.size),
            !.zspeed = Round(w.maxzSpeed * (w.size + 2 * Milli - (w.z + w.zspeed)), w.size)]

\* the spawn test without the MAXWAVES bound
WaterCanSpawn_NoCap(rnd, ws) ==
  /\ rnd
  /\ Len(ws) = 0 \/ Abs(ws[Len(ws)].x + WATER_SIZE * Milli) > 100 * Milli

\* the spawn test without the distance of the newest wave from the inflow edge
WaterCanSpawn_NoSpacing(rnd, ws) ==
  /\ rnd
  /\ Len(ws) < MAXWAVES

\* the spawn test of Water.update: Math.random() < 0.075 (rnd), room below
\* MAXWAVES, and the newest wave at least 100 away from the inflow edge,
\* (x + size) ** 2 > 10000
WaterCanSpawn(rnd, ws) ==
  /\ rnd
  /\ Len(ws) < MAXWAVES
  /\ Len(ws) = 0 \/ Abs(ws[Len(ws)].x + WATER_SIZE * Milli) > 100 * Milli

\* Water.update returning the new wave as it was constructed, before the
\* update loop moved it (a copy, not the object)
WaterUpdate_Copy(rnd, d, ws) ==
  LET spawn == WaterCanSpawn(rnd, ws)
      pushed == IF spawn THEN Append(ws, NewWave(WATER_SIZE * Milli, d)) ELSE ws
      updated == [i \in DOMAIN pushed |-> WaveUpdate(pushed[i])]
  IN [ waves |-> SelectSeq(updated, LAMBDA w : ~WaveIsDone(w)),
       newWaves |-> IF spawn THEN << NewWave(WATER_SIZE * Milli, d) >> ELSE << >> ]

\* Water.update(time) on the array this.waves: the waves afterwards and
\* the returned list, which holds the new Wave object itself
WaterUpdate(rnd, d, ws) ==
  LET spawn == WaterCanSpawn(rnd, ws)
      pushed == IF spawn THEN Append(ws, NewWave(WATER_SIZE * Milli, d)) ELSE ws
      updated == [i \in DOMAIN pushed |-> WaveUpdate(pushed[i])]
  IN [ waves |-> SelectSeq(updated, LAMBDA w : ~WaveIsDone(w)),
       newWaves |-> IF spawn THEN << updated[Len(updated)] >> ELSE << >> ]

\* one call of water.update; the random test fails once limit waves have
\* been created
Water_Update(rnd, d, limit) ==
  LET r == WaterUpdate(rnd /\ water.created < limit, d, water.waves)
  IN /\ water' = [ waves |-> r.waves,
                   newWaves |-> r.newWaves,
                   created |-> water.created + Len(r.newWaves) ]
     /\ UNCHANGED << stepper, twin, driver, pc, substeps, loadState, body, buildings,
                     buildingsToRemove, objects, launched, oob, oobCount, waves,
                     waterWaves, waveballs, index, lastTouched, world, touched, run >>

\* values the constructor may draw
Draws ==
  { [z |-> -250 * Milli, maxxSpeed |-> 900, maxzSpeed |-> -100, maxHeight |-> 50 * Milli,
     width |-> 10],
    [z |-> 100 * Milli, maxxSpeed |-> 450, maxzSpeed |-> 450, maxHeight |-> 150 * Milli,
     width |-> 5] }

\* Water alone.  The random test passes whenever waves are active (the
\* schedule with the most waves at a time); with no wave active it may fail
\* any number of times.
NextWater ==
  \E rnd \in BOOLEAN : \E d \in Draws :
    /\ rnd \/ water.waves = << >>
    /\ Water_Update(rnd, d, MaxWaterWaves)

SpecWater == Init /\ [][NextWater]_vars

\* Water under weak fairness of its update: animate calls it every frame
NextWaterLive ==
  \E rnd \in BOOLEAN : \E d \in Draws :
    /\ rnd \/ water.waves = << >>
    /\ Water_Update(rnd, d, MaxLiveWaves)

SpecWaterLive == Init /\ [][NextWaterLive]_vars /\ WF_vars(NextWaterLive)

\* Water filled to its capacity: every wave drawn alike and as fast as can be
FullDraws ==
  { [z |-> 0, maxxSpeed |-> 900, maxzSpeed |-> 0, maxHeight |-> 50 * Milli, width |-> 10] }

NextWaterFull ==
  \E d \in FullDraws : Water_Update(TRUE, d, MaxWaterFull)

SpecWaterFull == Init /\ [][NextWaterFull]_vars

----------------------------------------------------------------------------
(* Two waves constructed in the same tick and updated in step *)

\* draws that differ in maxHeight alone
TwinDraws ==
  { [z |-> 0, maxxSpeed |-> 900, maxzSpeed |-> 450, maxHeight |-> 50 * Milli, width |-> 5],
    [z |-> 0, maxxSpeed |-> 900, maxzSpeed |-> 450, maxHeight |-> 150 * Milli, width |-> 5] }

Twin_Construct(d1, d2) ==
  /\ twin = << >>
  /\ twin' = << NewWave(WATER_SIZE * Milli, d1), NewWave(WATER_SIZE * Milli, d2) >>
  /\ UNCHANGED << stepper, water, driver, pc, substeps, loadState, body, buildings,
                  buildingsToRemove, objects, launched, oob, oobCount, waves, waterWaves,
                  waveballs, index, lastTouched, world, touched, run >>

Twin_Update ==
  /\ twin # << >>
  /\ ~(WaveIsDone(twin[1]) /\ WaveIsDone(twin[2]))
  /\ twin' = << WaveUpdate(twin[1]), WaveUpdate(twin[2]) >>
  /\ UNCHANGED << stepper, water, driver, pc, substeps, loadState, body, buildings,
                  buildingsToRemove, objects, launched, oob, oobCount, waves, waterWaves,
                  waveballs, index, lastTouched, world, touched, run >>

NextTwin ==
  \/ \E d1 \in TwinDraws : \E d2 \in TwinDraws : Twin_Construct(d1, d2)
  \/ Twin_Update

SpecTwin == Init /\ [][NextTwin]_vars

----------------------------------------------------------------------------
(* Collision filtering: every body carries a group and a mask of groups; the *)
(* broadphase pairs two bodies only if each one's group is in the other's    *)
(* mask                                                                      *)

GROUND_GROUP == 1
BUILDING_GROUP == 2
SPHERE_GROUP == 4

\* a & b and a | b on naturals
RECURSIVE BitAnd(_, _)
BitAnd(a, b) ==
  IF a = 0 \/ b = 0 THEN 0
  ELSE (a % 2) * (b % 2) + 2 * BitAnd(a \div 2, b \div 2)

RECURSIVE BitOr(_, _)
BitOr(a, b) ==
  IF a = 0 THEN b
  ELSE IF b = 0 THEN a
  ELSE (IF a % 2 = 1 \/ b % 2 = 1 THEN 1 ELSE 0) + 2 * BitOr(a \div 2, b \div 2)

\* collisionFilterGroup of a body, by its kind
CollisionFilterGroup(b) ==
  CASE b[1] = "ground" -> GROUND_GROUP
    [] b[1] = "building" -> BUILDING_GROUP
    [] b[1] = "sphere" -> SPHERE_GROUP
    [] b[1] = "waveball" -> SPHERE_GROUP

\* the masks, were a wave-ball given the mask of a user ball
CollisionFilterMask_WaveGround(b) ==
  CASE b[1] = "ground" -> BitOr(SPHERE_GROUP, BUILDING_GROUP)
    [] b[1] = "building" -> BitOr(SPHERE_GROUP, GROUND_GROUP)
    [] b[1] = "sphere" -> BitOr(GROUND_GROUP, BUILDING_GROUP)
    [] b[1] = "waveball" -> BitOr(GROUND_GROUP, BUILDING_GROUP)

\* collisionFilterMask of a body, by its kind
CollisionFilterMask(b) ==
  CASE b[1] = "ground" -> BitOr(SPHERE_GROUP, BUILDING_GROUP)
    [] b[1] = "building" -> BitOr(SPHERE_GROUP, GROUND_GROUP)
    [] b[1] = "sphere" -> BitOr(GROUND_GROUP, BUILDING_GROUP)
    [] b[1] = "waveball" -> BUILDING_GROUP

\* the test of the broadphase (SAPBroadphase of the physics library) on a
\* pair of bodies
NeedBroadphaseCollision(a, b) ==
  /\ BitAnd(CollisionFilterGroup(a), CollisionFilterMask(b)) # 0
  /\ BitAnd(CollisionFilterGroup(b), CollisionFilterMask(a)) # 0

----------------------------------------------------------------------------
(* The impulse of damageBuilding, in thousandths; storedMass comes in        *)
(* hundredths, and the square roots are rounded down                         *)

\* impactVelocity.length()
Vec3Length(v) == ISqrt(v.x * v.x + v.y * v.y + v.z * v.z)

\* forceScale = impactVelocity.length() * 2 / Math.sqrt(body.storedMass)
ForceScale(v, storedMass) ==
  (2 * Vec3Length(v) * Milli * 100) \div ISqrt(storedMass * 100)

\* force = (min(v.x * forceScale, 10), min(|v.y| * forceScale * 0.3, 0.01),
\*          min(v.z * forceScale, 10))
ImpulseForce(v, storedMass) ==
  LET fs == ForceScale(v, storedMass)
  IN Vec3(Min2(v.x * fs, 10 * Milli),
          Min2((Abs(v.y) * fs * 3) \div 10, 10),
          Min2(v.z * fs, 10 * Milli))

\* velocities of a ball at an impact: the launch velocity with its jitter to
\* either side, the same reversed by a bounce, a slow ball, a ball at rest
ImpactVelocities ==
  { Vec3(600, 5, 20), Vec3(600, -3, -20), Vec3(-600, 0, 0), Vec3(30, -40, 0),
    Vec3(0, 0, 0) }

----------------------------------------------------------------------------
(* The clock of animate and world.step(1 / 120, delta, 3).  Time is counted  *)
(* in ticks of 1/1200 s.  world.step adds delta to the accumulator of the    *)
(* World and runs internalStep(1 / 120) while a whole fixed step is left and *)
(* fewer than maxSubSteps have run (it may give up earlier when the steps    *)
(* take too long), then drops the whole steps that are left over.            *)

TicksPerSecond == 1200
\* 1 / 120 s
FixedTimeStep == TicksPerSecond \div STEPS_PER_SECOND
\* 0.03 s
MaxDelta == (3 * TicksPerSecond) \div 100

\* the frame time handed on as it is read from the clock
ClampDelta_None(raw) == raw

\* delta = Math.min(clock.getDelta(), 0.03)
ClampDelta(raw) == Min2(raw, MaxDelta)

\* the sub-steps the accumulator and maxSubSteps allow
SubstepsDue(accumulator) == Min2(accumulator \div FixedTimeStep, MAX_SUBSTEPS)

\* one frame: raw is the reading of clock.getDelta(), n the sub-steps run
Stepper_Frame(raw, n) ==
  LET delta == ClampDelta(raw)
      accumulator == stepper.accumulator + delta
      due == SubstepsDue(accumulator)
  IN /\ stepper.frames < MaxFrames
     /\ n \in (IF due = 0 THEN {0} ELSE 1..due)
     /\ stepper' = [stepper EXCEPT !.raw = raw,
                                   !.delta = delta,
                                   !.substeps = n,
                                   !.stepped = n * FixedTimeStep,
                                   !.accumulator = (accumulator - n * FixedTimeStep)
                                                     % FixedTimeStep,
                                   !.frames = @ + 1]
     /\ UNCHANGED << water, twin, driver, pc, substeps, loadState, body, buildings,
                     buildingsToRemove, objects, launched, oob, oobCount, waves,
                     waterWaves, waveballs, index, lastTouched, world, touched, run >>

\* readings of the clock: none, half a step, one step, 1/60 s, 0.03 s, more
\* than 0.03 s, a second (a tab that was in the background)
RawDeltas == {0, 5, 10, 20, 36, 40, 1200}

NextStepper ==
  \E raw \in RawDeltas : \E n \in 0..MAX_SUBSTEPS : Stepper_Frame(raw, n)

SpecStepper == Init /\ [][NextStepper]_vars

----------------------------------------------------------------------------
(* Properties *)

Tracked == Range(objects)
Removed(i) == Bld(i) \notin world /\ i \notin Range(buildings)
InFrame == pc \in {"step", "objects", "waveballs", "cap", "removal"}

\* C1 (as stated): in every reachable state, the states between a launch and
\* the next cap sweep included, at most 200 user projectiles are tracked.
C1_AtMostCapAlways == Len(objects) <= MAX_OBJECTS

\* C1 (amended): once a frame's cap sweep has run, and until the frame ends,
\* at most 200 user projectiles are tracked and every tracked one is in the
\* World; outside of that the excess is at most what was launched.
C1_AtMostCapAfterSweep ==
  /\ pc = "removal" => Len(objects) <= MAX_OBJECTS
  /\ Len(objects) <= launched
  /\ \A o \in Tracked : Obj(o) \in world

\* C1 witness: a sweep has just cut a population of more than 200 down to 200
C1_SweptToCap == pc = "removal" /\ Len(objects) = MAX_OBJECTS /\ launched > MAX_OBJECTS

\* C2: when more than 200 user projectiles are tracked, the cap sweep leaves
\* exactly 200 tracked and in the World, the 200 most recently launched of
\* the tracked ones (with 250 launched and none out of bounds: 51..250); the
\* evicted ones are the oldest and their bodies leave the World.
C2_FifoEviction ==
  [][ (pc = "cap" /\ Len(objects) > MAX_OBJECTS) =>
        LET n == Len(objects) - MAX_OBJECTS
            evicted == {objects[i] : i \in 1..n}
        IN /\ Len(objects') = MAX_OBJECTS
           /\ objects' = SubSeq(objects, n + 1, Len(objects))
           /\ \A o \in Range(objects') : Obj(o) \in world'
           /\ \A o \in evicted : Obj(o) \notin world'
           /\ \A e \in evicted : \A k \in Range(objects') : e < k
           /\ world' = world \ {Obj(o) : o \in evicted}
           /\ (oobCount = 0 /\ launched = 250 /\ Len(objects) = 250 =>
                 objects' = [i \in 1..MAX_OBJECTS |-> 50 + i]) ]_vars

\* C2 witness: 250 launched in one batch, none out of bounds, the sweep is done:
\* balls 51..250 are tracked, balls 1..50 are gone from the World
C2_Swept250 ==
  /\ pc = "removal"
  /\ launched = 250
  /\ oobCount = 0
  /\ objects = [i \in 1..MAX_OBJECTS |-> 50 + i]
  /\ \A o \in 1..50 : Obj(o) \notin world
  /\ \A o \in 51..250 : Obj(o) \in world

\* C3: every building's health is a number between 0 and maxHealth, whatever
\* damage user-ball and wave-ball contacts have applied.
C3_HealthInRange ==
  \A i \in DOMAIN body :
    /\ IsNum(body[i].health)
    /\ 0 <= body[i].health.v
    /\ body[i].health.v <= body[i].maxHealth

\* C4: a damage application never leaves health above its value before the
\* call: after <= before, for user-ball and wave-ball contacts alike.
C4_HealthNonIncreasing ==
  [][ \A i \in DOMAIN body :
        body'[i].health # body[i].health => JsLe(body'[i].health, body[i].health) ]_vars

\* C5: a building whose health is <= 0 is in the removal queue from the call
\* that brought it there until the end of that frame; between frames, and
\* when the next physics step begins, it is out of the World and out of the
\* buildings list, and the queue is empty.
C5_DestroyedIsRemoved ==
  /\ \A i \in DOMAIN body :
       JsLe(body[i].health, JsNum(0)) =>
         IF pc = "idle" \/ (pc = "step" /\ substeps = 0)
         THEN Removed(i)
         ELSE i \in Range(buildingsToRemove) \/ Removed(i)
  /\ ~InFrame => buildingsToRemove = << >>
  /\ \A i \in Range(buildingsToRemove) : JsLe(body[i].health, JsNum(0))

\* C5 witness: a frame has ended after a building was destroyed in it
C5_DestroyedAndGone ==
  /\ pc = "idle"
  /\ \E i \in DOMAIN body : JsLe(body[i].health, JsNum(0)) /\ Removed(i)

\* the magnitude of a velocity and the damage the specification prescribes for it
Speed(v) == ISqrt(v.x * v.x + v.y * v.y + v.z * v.z)
PrescribedDamage(v) == Min2(30, Speed(v) \div 10)

\* C6: a user-ball contact at velocity v lowers the hit building's health by
\* exactly min(30, 0.1 * |v|), a number in [0, 30].
C6_UserDamageFromSpeed ==
  [][ \A o \in 1..launched : \A b \in DOMAIN body : \A v \in Velocities :
        Collide_UserBall(o, b, v) =>
          /\ IsNum(UserDamage(v))
          /\ UserDamage(v).v \in 0..30
          /\ UserDamage(v).v = PrescribedDamage(v)
          /\ body'[b].health = JsSub(body[b].health, JsNum(PrescribedDamage(v))) ]_vars

\* C7: a contact episode of a wave-ball on a building that has lasted three
\* sub-steps or more, a collide event in each, has damaged the building
\* exactly once.
C7_OneDamagePerEpisode == \A e \in run : e.n >= 3 => e.hits = 1

\* C8: two wave-balls tracked at the same time use different lastTouched slots.
C8_DistinctSlots ==
  \A w1 \in Range(waveballs) : \A w2 \in Range(waveballs) :
    w1 # w2 => index[w1] # index[w2]

\* C9: activateBuilding on an activated building changes nothing; a dynamic
\* body stays dynamic, and keeps its mass, its damping and its single
\* velocity kick, whatever hits follow.
C9_ActivateIdempotent ==
  [][ \A i \in DOMAIN body :
        /\ body[i].kicks <= 1
        /\ body[i].isActivated <=> body[i].type = "DYNAMIC"
        /\ body[i].isActivated =>
             /\ ActivateBuilding(body[i]) = body[i]
             /\ body'[i].isActivated
             /\ body'[i].type = "DYNAMIC"
             /\ body'[i].kicks = body[i].kicks
             /\ body'[i].mass = body[i].mass
             /\ body'[i].linearDamping = body[i].linearDamping
             /\ body'[i].angularDamping = body[i].angularDamping ]_vars

\* C9 witness: a building activated once that has been hit by a wave-ball and
\* by a user ball, so activateBuilding ran on it at least twice
C9_HitTwiceKickedOnce ==
  \E i \in DOMAIN body :
    /\ body[i].isActivated
    /\ body[i].kicks = 1
    /\ body[i].type = "DYNAMIC"
    /\ ~IsNum(body[i].health)
    /\ JsRef(i) \in Range(lastTouched)

\* C10: the damage application that brings health to <= 0 appends the
\* building to the removal queue and changes nothing of it but health and
\* colour: no activation, no impulse, same type, mass and velocity.
C10_DestroyingHitOnlyEnqueues ==
  [][ \A i \in DOMAIN body :
        (body'[i].health # body[i].health /\ JsLe(body'[i].health, JsNum(0))) =>
          /\ buildingsToRemove' = Append(buildingsToRemove, i)
          /\ body'[i] = [body[i] EXCEPT !.health = body'[i].health,
                                        !.wireColor = body'[i].wireColor] ]_vars

\* C10 witness: the building of maxHealth 1000 hit once for 1200: queued,
\* never activated, still kinematic and massless
C10_StaticToDestroyed ==
  \E i \in DOMAIN body :
    /\ body[i].maxHealth = 1000
    /\ body[i].health = JsNum(-200)
    /\ i \in Range(buildingsToRemove)
    /\ ~body[i].isActivated
    /\ body[i].type = "KINEMATIC"
    /\ body[i].mass = 0
    /\ body[i].kicks = 0
    /\ ~body[i].impulsed

\* C11: damage accumulates, health after a call is health before minus the
\* damage, and the call enqueues the building exactly when the new health is
\* <= 0: a hit that leaves health above 0 enqueues nothing.
C11_CumulativeAndEnqueuedAtZero ==
  [][ \A k \in 1..MaxCallers : \A b \in DOMAIN body : \A damage \in Damages :
        \A impact \in BOOLEAN :
          DamageCall(k, b, damage, impact) =>
            /\ body'[b].health = JsSub(body[b].health, damage)
            /\ IF JsLe(body'[b].health, JsNum(0))
               THEN buildingsToRemove' = Append(buildingsToRemove, b)
               ELSE buildingsToRemove' = buildingsToRemove ]_vars

\* C11 witness: the building of maxHealth 3000 at health 600 - 1200, queued
\* once; it was activated by an earlier hit
C11_ThirdHitDestroys ==
  \E i \in DOMAIN body :
    /\ body[i].maxHealth = 3000
    /\ body[i].health = JsNum(-600)
    /\ body[i].isActivated
    /\ buildingsToRemove = << i >>

\* C12: every building body has storedMass in [5, 20000] and
\* maxHealth = max(200, min(3000, floor(10 * storedMass))), in [200, 3000];
\* it is created kinematic, massless, not activated, at full health; and no
\* step changes storedMass or maxHealth.
C12_BuildingCreation ==
  [][ /\ \A i \in DOMAIN body' :
           /\ body'[i].storedMass >= 5 * MassScale
           /\ body'[i].storedMass <= 20000 * MassScale
           /\ body'[i].maxHealth >= 200
           /\ body'[i].maxHealth <= 3000
           /\ 10 * body'[i].storedMass >= MassScale * body'[i].maxHealth
                \/ body'[i].maxHealth = 200
           /\ 10 * body'[i].storedMass < MassScale * (body'[i].maxHealth + 1)
                \/ body'[i].maxHealth = 3000
           /\ body'[i].storedMass = 100 * MassScale => body'[i].maxHealth = 1000
           /\ body'[i].storedMass = 5000 * MassScale => body'[i].maxHealth = 3000
           /\ i \notin DOMAIN body =>
                /\ body'[i].type = "KINEMATIC"
                /\ body'[i].mass = 0
                /\ ~body'[i].isActivated
                /\ body'[i].health = JsNum(body'[i].maxHealth)
      /\ \A i \in DOMAIN body :
           /\ i \in DOMAIN body'
           /\ body'[i].storedMass = body[i].storedMass
           /\ body'[i].maxHealth = body[i].maxHealth ]_vars

\* C12 witness: the building of storedMass 100 after a hit: health 400,
\* activated, storedMass and maxHealth as created
C12_HitKeepsMassAndMaxHealth ==
  \E i \in DOMAIN body :
    /\ body[i].storedMass = 100 * MassScale
    /\ body[i].maxHealth = 1000
    /\ body[i].health = JsNum(400)
    /\ body[i].isActivated

\* the projectile bodies in the World
ProjectileBodies == {b \in world : b[1] \in {"sphere", "waveball"}}
\* the bodies of the tracked projectiles
TrackedBodies == {Obj(o) : o \in Range(objects)} \cup {Wb(w) : w \in Range(waveballs)}

\* C13: at the end of every frame the projectile bodies in the World are
\* exactly the bodies of the tracked user balls and wave-balls.
C13_WorldHoldsTrackedOnly == pc = "idle" => ProjectileBodies = TrackedBodies

\* C14: the World's body list is untouched from the start of world.step to
\* its return, collide callbacks included; a building leaves the World only
\* in the removal sweep that ends the frame.
C14_NoRemovalDuringStep ==
  [][ /\ (pc = "step" => world' = world)
      /\ \A i \in DOMAIN body :
           (Bld(i) \in world /\ Bld(i) \notin world') =>
             /\ pc = "removal"
             /\ pc' = "idle"
             /\ i \in Range(buildingsToRemove) ]_vars

\* C14 witness: inside world.step a destroyed building is queued and still in
\* the World
C14_QueuedStillInWorld ==
  /\ pc = "step"
  /\ \E i \in Range(buildingsToRemove) :
       Bld(i) \in world /\ JsLe(body[i].health, JsNum(0))

\* C15: a building that has left the World is referred to by none of
\* buildings, buildingsToRemove and lastTouched.
C15_NoReferenceAfterRemoval ==
  \A i \in DOMAIN body :
    Bld(i) \notin world =>
      /\ i \notin Range(buildings)
      /\ i \notin Range(buildingsToRemove)
      /\ JsRef(i) \notin Range(lastTouched)

\* C16: after any sequence of Water.update calls at most 32 waves are active.
C16_AtMostMaxWaves == Len(water.waves) <= MAXWAVES

\* C16 witness: 32 waves are active and the newest has left the inflow edge:
\* only the MAXWAVES test stops the next spawn
C16_FullAndSpawnRefused ==
  /\ Len(water.waves) = MAXWAVES
  /\ Abs(water.waves[MAXWAVES].x + WATER_SIZE * Milli) > 100 * Milli
  /\ water.created = MAXWAVES

\* C17: at every tick every wave has height >= 0, before and after its
\* update, and a wave for which done() holds has x > size + 1 or
\* height < 0.05.
C17_HeightAndDone ==
  [][ \A i \in DOMAIN water.waves :
        LET w == water.waves[i]
            u == WaveUpdate(w)
        IN /\ w.height >= 0
           /\ u.height >= 0
           /\ ~WaveIsDone(w)
           /\ WaveIsDone(u) => (u.x > u.size + 1 * Milli \/ u.height < 50) ]_vars

\* C17 witness: a wave past its growth, one update away from done()
C17_AboutToBeDone ==
  \E i \in DOMAIN water.waves :
    /\ ~water.waves[i].growing
    /\ water.waves[i].height > 0
    /\ WaveIsDone(WaveUpdate(water.waves[i]))

\* C18: with size = 500, the update that takes a wave's x beyond 501 makes
\* done() true whatever its height and growth phase, and that same
\* Water.update call drops the wave: no active wave has x > 501.
C18_DoneBeyondSizePlusOne ==
  [][ /\ \A i \in DOMAIN water.waves :
           LET u == WaveUpdate(water.waves[i])
           IN u.x > 501 * Milli => (WaveIsDone(u) /\ u \notin Range(water'.waves))
      /\ \A w \in Range(water'.waves) : w.size = 500 * Milli /\ w.x <= 501 * Milli ]_vars

\* C18 witness: both waves ever created have been dropped
C18_AllDropped == water.created = MaxWaterWaves /\ water.waves = << >>

\* the attributes the specification declares for a wave
Declared(w) == << w.x, w.z, w.height, w.xspeed, w.zspeed, w.width >>

\* C19: two waves that agree on x, z, height, xspeed, zspeed and width
\* agree on them after one more update() each.
C19_DeclaredStateDetermines ==
  [][ (twin # << >> /\ twin' # << >> /\ Declared(twin[1]) = Declared(twin[2])) =>
        Declared(twin'[1]) = Declared(twin'[2]) ]_vars

\* C20: a Water.update call creates no wave or one; the returned list holds
\* exactly the wave created in the call, which is the newest active wave
\* after the call.
C20_ReturnsTheNewWave ==
  [][ /\ Len(water'.newWaves) \in {0, 1}
      /\ water'.created = water.created + Len(water'.newWaves)
      /\ Len(water'.waves) <= Len(water.waves) + Len(water'.newWaves)
      /\ \A w \in Range(water'.newWaves) :
           /\ w \in Range(water'.waves)
           /\ w = water'.waves[Len(water'.waves)]
           /\ w \notin Range(water.waves)
           /\ \E d \in Draws : w = WaveUpdate(NewWave(WATER_SIZE * Milli, d))
      /\ water'.newWaves = << >> =>
           \A w \in Range(water'.waves) :
             \E i \in DOMAIN water.waves : w = WaveUpdate(water.waves[i]) ]_vars

\* C20 witness: a call has just created a second wave and returned it
C20_SecondWaveReturned ==
  /\ Len(water.waves) = 2
  /\ water.newWaves = << water.waves[2] >>
  /\ water.created = 2

----------------------------------------------------------------------------
(* Spawning, wave speeds and the frame (claims C21 to C30) *)

\* C21: a wave is created in an update call only if, at the start of the call,
\* fewer than MAXWAVES waves are active and either none is active or the
\* newest active wave is more than 100 units past the inflow edge
\* (x + size > 100)
C21_SpawnPreconditions ==
  [][ water'.newWaves # << >> =>
        /\ Len(water.waves) < MAXWAVES
        /\ \/ Len(water.waves) = 0
           \/ water.waves[Len(water.waves)].x + WATER_SIZE * Milli > 100 * Milli ]_vars

\* a wave was spawned behind 31 active ones
C21_SpawnedBehindOthers ==
  /\ water.newWaves # << >>
  /\ Len(water.waves) = MAXWAVES
  /\ water.waves[MAXWAVES - 1].x + WATER_SIZE * Milli > 100 * Milli

\* C22: one more update never increases the magnitude of xspeed or of zspeed
\* of an active wave, whatever its lateral offset and the sign of its lateral
\* speed
C22_SpeedsNeverIncrease ==
  \A i \in DOMAIN water.waves :
    LET w == water.waves[i]
        u == WaveUpdate(w)
    IN /\ Abs(u.xspeed) <= Abs(w.xspeed)
       /\ Abs(u.zspeed) <= Abs(w.zspeed)

\* C23: a frame creates exactly one wave-ball for the wave its Water.update
\* returned as new (the wave-ball is tracked last, its body joins the World,
\* its collide handler gets one slot), no step creates a wave-ball otherwise,
\* and no wave is bound to two tracked wave-balls
C23_OneWaveBallPerNewWave ==
  [][ /\ IF Len(waves') > Len(waves)
         THEN /\ Len(waves') = Len(waves) + 1
              /\ pc = "idle"
              /\ waveballs' = Append(waveballs, Len(waves'))
              /\ Wb(Len(waves')) \in world' \ world
              /\ Len(index') = Len(index) + 1
         ELSE /\ Range(waveballs') \subseteq Range(waveballs)
              /\ index' = index
              /\ \A w \in DOMAIN waves : Wb(w) \in world' => Wb(w) \in world
      /\ \A i, j \in DOMAIN waveballs' : waveballs'[i] = waveballs'[j] => i = j
      /\ Len(index') = Len(waves') ]_vars

\* the third wave got its ball while an earlier one was still tracked
C23_ThirdBallCreated ==
  /\ Len(waves) = 3
  /\ Len(waveballs) >= 2
  /\ waveballs[Len(waveballs)] = 3
  /\ pc = "step"
  /\ substeps = 0

\* C24: the wave-ball loop of a frame sets the body position of every
\* wave-ball that is still tracked after it to the position derived from its
\* wave in that frame, also when the loop retires other wave-balls
C24_TrackedBallsFollowWaves ==
  [][ pc = "waveballs" =>
        Range(waveballs') \subseteq WaveballPositioned(waveballs, 1) ]_vars

\* C25: the three groups are the disjoint bits 1, 2 and 4, and two bodies of
\* the World pass the collision filter exactly when they are a building and
\* the ground, a building and a user ball, a building and a wave-ball, or a
\* user ball and the ground: never two buildings, two projectiles, the ground
\* with itself, or a wave-ball and the ground
C25_ContactPairs ==
  /\ << GROUND_GROUP, BUILDING_GROUP, SPHERE_GROUP >> = << 1, 2, 4 >>
  /\ BitAnd(GROUND_GROUP, BUILDING_GROUP) = 0
  /\ BitAnd(GROUND_GROUP, SPHERE_GROUP) = 0
  /\ BitAnd(BUILDING_GROUP, SPHERE_GROUP) = 0
  /\ \A a, b \in world :
       NeedBroadphaseCollision(a, b) <=>
         { a[1], b[1] } \in { { "building", "ground" }, { "building", "sphere" },
                              { "building", "waveball" }, { "sphere", "ground" } }

\* the World holds the ground, a building, a user ball and a wave-ball
C25_AllKindsInWorld ==
  /\ Ground \in world
  /\ \E b \in DOMAIN body : Bld(b) \in world
  /\ \E o \in 1..launched : Obj(o) \in world
  /\ \E w \in DOMAIN waves : Wb(w) \in world

\* C26: the stages of a frame run in order: Water.update with the creation of
\* the wave-balls first, then the physics sub-steps with every collide
\* handler, then the loops over the projectiles, then the deferred
\* destruction sweep, which ends the frame; no collide handler runs once the
\* physics step has returned, so none runs after the sweep has started
C26_StagesInOrder ==
  [][ /\ << pc, pc' >> \in { << "idle", "idle" >>, << "idle", "step" >>,
                            << "step", "step" >>, << "step", "objects" >>,
                            << "objects", "waveballs" >>, << "waveballs", "cap" >>,
                            << "cap", "removal" >>, << "removal", "idle" >> }
      /\ (waves' # waves \/ Len(waveballs') > Len(waveballs))
           => (pc = "idle" /\ pc' = "step" /\ substeps' = 0)
      /\ (substeps' > substeps) => (pc = "step" /\ pc' = "step")
      /\ ( \/ (touched' # touched /\ touched' # {})
           \/ (body' # body /\ DOMAIN body' = DOMAIN body)
           \/ Len(buildingsToRemove') > Len(buildingsToRemove) )
           => (pc = "step" /\ pc' = "step" /\ substeps >= 1)
      /\ ( \/ Len(buildingsToRemove') < Len(buildingsToRemove)
           \/ \E b \in DOMAIN body : Bld(b) \in world \ world' )
           => (pc = "removal" /\ pc' = "idle") ]_vars

\* the sweep is about to start on a building that a collide handler of the
\* last sub-step of this frame has queued
C26_SweepAfterLastSubstep ==
  /\ pc = "removal"
  /\ substeps = MAX_SUBSTEPS
  /\ buildingsToRemove # << >>
  /\ Len(waves) >= 1

\* C27: the deferred destruction sweep runs before the copy of the body
\* transforms into the meshes, so when the copy runs no building it visits is
\* queued for removal
C27_NoCopyForQueued ==
  pc = "objects" => \A b \in CopiedBuildings : b \notin Range(buildingsToRemove)

\* C28: whenever damageBuilding applies an impulse (impact data given, the
\* building not destroyed by the hit), every component of the impulse is
\* within its bound, |x| <= 10, |y| <= 0.01, |z| <= 10, whatever the impact
\* velocity
C28_ImpulseWithinBounds ==
  [][ \A k \in 1..MaxCallers : \A b \in DOMAIN body : \A damage \in Damages :
        DamageCall(k, b, damage, TRUE) /\ ~JsLe(body'[b].health, JsNum(0)) =>
          \A v \in ImpactVelocities :
            LET force == ImpulseForce(v, body[b].storedMass)
            IN /\ Abs(force.x) <= 10 * Milli
               /\ Abs(force.y) <= 10
               /\ Abs(force.z) <= 10 * Milli ]_vars

\* C29: after every damageBuilding call the wireframe colour of the building
\* follows ratio = max(health / maxHealth, 0) of the new health: green when
\* ratio > 0.7, yellow when 0.3 < ratio <= 0.7, red otherwise (a health that
\* is not a number included); the destroying hit sets it as well
C29_ColourFollowsRatio ==
  [][ \A k \in 1..MaxCallers : \A b \in DOMAIN body : \A damage \in Damages :
        \A impact \in BOOLEAN :
          DamageCall(k, b, damage, impact) =>
            LET h == body'[b].health
                maxHealth == body'[b].maxHealth
                ratio10 == IF IsNum(h) /\ h.v > 0 THEN 10 * h.v ELSE 0
            IN body'[b].wireColor =
                 IF IsNum(h) /\ ratio10 > 7 * maxHealth THEN "green"
                 ELSE IF IsNum(h) /\ ratio10 > 3 * maxHealth /\ ratio10 <= 7 * maxHealth
                      THEN "yellow"
                      ELSE "red" ]_vars

\* a building of maxHealth 1000, green at full health, was turned red by the
\* single hit of 1200 that destroyed it
C29_RedOnDestroyingHit ==
  \E i \in DOMAIN body :
    /\ body[i].maxHealth = 1000
    /\ body[i].health = JsNum(-200)
    /\ body[i].wireColor = "red"
    /\ ~body[i].isActivated
    /\ i \in Range(buildingsToRemove)

\* C30 as stated: the frame time handed to world.step is at most 0.03 s, at
\* most 3 sub-steps run a frame, and the solver makes 3 iterations a sub-step
C30_ThreeSolverIterations ==
  /\ stepper.delta <= MaxDelta
  /\ stepper.substeps <= 3
  /\ stepper.iterations = 3

\* C30: the frame time handed to world.step is the clock reading clamped to
\* at most 0.03 s; a frame runs at most 3 sub-steps, each of exactly 1/120 s
\* and none without a whole 1/120 s in the accumulator; the solver makes 15
\* iterations a sub-step
C30_ClampedDeltaBoundedSubsteps ==
  [][ stepper' # stepper =>
        /\ stepper'.delta <= MaxDelta
        /\ stepper'.delta <= stepper'.raw
        /\ stepper'.substeps <= 3
        /\ stepper'.stepped * 120 = stepper'.substeps * TicksPerSecond
        /\ stepper'.stepped <= stepper.accumulator + stepper'.delta
        /\ stepper'.iterations = 15 ]_vars

\* a frame that came a second late: delta clamped to 0.03 s, three sub-steps
\* run, more than a sub-step of time dropped
C30_LateFrameClamped ==
  /\ stepper.raw > MaxDelta
  /\ stepper.delta = MaxDelta
  /\ stepper.substeps = 3
  /\ stepper.frames >= 2

----------------------------------------------------------------------------
(* The load, the life of the bindings, retirement and destruction (claims    *)
(* C31 to C39)                                                               *)

\* C31: while the load is pending and after it has failed there is no
\* building (no body, none tracked, none queued, none in the World), and the
\* frame goes on: at every position of animate the next stage can run
C31_FramesRunWithoutBuildings ==
  loadState # "loaded" =>
    /\ body = << >>
    /\ buildings = << >>
    /\ buildingsToRemove = << >>
    /\ \A b \in world : b[1] # "building"
    /\ pc \in {"idle", "step", "objects", "waveballs", "cap", "removal"}
    /\ pc = "idle" => ENABLED Animate_WaterUpdate(FALSE, waves, MaxWaves)
    /\ pc = "step" => ENABLED WorldStepReturn
    /\ pc = "objects" => ENABLED Animate_UpdateObjects
    /\ pc = "waveballs" => ENABLED Animate_UpdateWaveballs
    /\ pc = "cap" => ENABLED Animate_LimitObjects
    /\ pc = "removal" => ENABLED Animate_ProcessBuildingRemoval

\* after the load failed a frame with a user ball and a wave-ball in the World
\* has come to its removal sweep
C31_FrameAfterFailure ==
  /\ loadState = "failed"
  /\ pc = "removal"
  /\ substeps >= 1
  /\ launched >= 1
  /\ Len(waveballs) >= 1

\* C32: once the Viewer cleanup has run no frame stage runs and no launch
\* takes effect any more, and the World holds no body, also when the load
\* resolves afterwards
C32_TornDownWorldEmpty ==
  /\ pc = "unmounted" => world = {}
  /\ pc = "unmounted" =>
       /\ ~ ENABLED (\E count \in LaunchCounts : LaunchBalls(count, MaxLaunched + 1))
       /\ ~ ENABLED Animate_WaterUpdate(FALSE, waves, MaxWaves)
       /\ ~ ENABLED AfterStep

\* C33: between frames the lastTouched array has exactly one entry for each
\* tracked wave-ball: the retirement of a wave-ball takes its entry away
C33_OneEntryPerLiveWaveBall ==
  pc = "idle" => Len(lastTouched) = Len(waveballs)

\* C34: every active wave moves on in x at its next update and stays below
\* size + 2, and under repeated Water.update calls the active set empties:
\* every wave that was emitted reports done() and is removed
C34_EveryWaveRetired ==
  /\ [](\A i \in DOMAIN water.waves :
          LET w == water.waves[i]
          IN /\ WaveUpdate(w).x > w.x
             /\ WaveUpdate(w).x < w.size + 2 * Milli
             /\ ~WaveIsDone(w))
  /\ (water.waves # << >>) ~> (water.waves = << >>)

\* a slow wave (maxxSpeed 0.45), about to be done next update: within one of
\* (size + 1) and still moving
C34_SlowWaveNearTheEnd ==
  \E i \in DOMAIN water.waves :
    /\ water.waves[i].maxxSpeed = 450
    /\ water.waves[i].x > water.waves[i].size
    /\ WaveIsDone(WaveUpdate(water.waves[i]))

\* C35: once the wave-ball loop of a frame has run, and until the next frame,
\* no tracked wave-ball is due for retirement (its wave done or its ball out
\* of bounds)
C35_NoDueWaveBallTracked ==
  pc \in {"cap", "removal", "idle"} => \A w \in Range(waveballs) : ~WaveBallDue(w)

\* C36: the removal queue never holds a building twice, and the health of a
\* queued building does not change any more
C36_QueuedOnceAndFrozen ==
  [][ /\ \A i, j \in DOMAIN buildingsToRemove' :
           buildingsToRemove'[i] = buildingsToRemove'[j] => i = j
      /\ \A b \in Range(buildingsToRemove) : body'[b].health = body[b].health ]_vars

\* C37: a building that keeps being hit, damageBuilding being called on it
\* again and again by the collide handlers of user balls and wave-balls, is
\* eventually destroyed and removed from the World
C37_HitBuildingDestroyed ==
  ([]<><< 1 \in DOMAIN body /\ \E k \in 1..MaxCallers : \E damage \in Damages :
            \E impact \in BOOLEAN : DamageCall(k, 1, damage, impact) >>_vars)
    => <>(loadState = "loaded" /\ Bld(1) \notin world)

\* C38: the two drivers take the same step from the same state: the one place
\* where the model of animate reads the driver, the wave-ball loop, leaves
\* the same tracked wave-balls and the same World bodies under main.js as
\* under Viewer.jsx
C38_DriversAgree ==
  pc = "waveballs" =>
    WaveballLoop("main", waveballs, 1, world) = WaveballLoop("viewer", waveballs, 1, world)

\* C39: between frames the building bodies in the World are exactly the
\* members of the buildings list, each with health > 0, and the removal
\* queue is empty; a building that was removed never comes back
C39_BuildingsInWorldAreAlive ==
  [][ /\ pc' = "idle" =>
           /\ buildingsToRemove' = << >>
           /\ \A b \in DOMAIN body' : Bld(b) \in world' <=> b \in Range(buildings')
           /\ \A b \in Range(buildings') : JsGt(body'[b].health, JsNum(0))
      /\ \A b \in DOMAIN body :
           (Bld(b) \notin world => Bld(b) \notin world')
           /\ (b \notin Range(buildings) => b \notin Range(buildings')) ]_vars

====
